---- MODULE Spec2Model ----
(***************************************************************************)
(* Session lifecycle of the HourTrack client (src/src/App.jsx).            *)
(*                                                                         *)
(* The model has two halves.  The store half is the Firestore collection   *)
(* artifacts/<appId>/users/<userId>/sessions with its realtime feed; the   *)
(* client half is the state of the App component (its useState cells, its  *)
(* snapshot listener and the promises its handlers are awaiting).          *)
(*                                                                         *)
(* Spec    is the component as it is wired: handlers run only from the     *)
(*         controls the component renders.                                 *)
(* SpecApi runs the three handlers startTracking / stopTracking /          *)
(*         deleteSession in any state, guarded only by their own code.     *)
(* SpecClock is Spec on a host whose clock may be set back.                *)
(* SpecView is the totals view of a page opened on a store with history.   *)
(* SpecLife is Spec with the component discarded and mounted again and     *)
(*         with a change of the signed-in user.                            *)
(***************************************************************************)
EXTENDS Integers, Sequences, FiniteSets, TLC

VARIABLES
    store,        \* the session collection: document id -> document data
    usedIds,      \* document ids the store has ever assigned
    now,          \* the wall clock, in milliseconds
    db,           \* useState db (line 78)
    userId,       \* useState userId (line 80)
    isAuthReady,  \* useState isAuthReady (line 81)
    sessions,     \* useState sessions (line 82)
    isTracking,   \* useState isTracking (line 83)
    error,        \* useState error (line 86)
    jobInput,     \* useState jobInput (line 87)
    listener,     \* the live onSnapshot subscription and what its closure captured
    feed,         \* snapshots the store has produced and not yet delivered
    awaiting,     \* store calls whose promise has not yet settled
    calls,        \* how many store calls the handlers have issued so far
    last,         \* what the handler that ran in the last step did (observation only)
    totalPeriod,  \* useState totalPeriod (line 84)
    timeZone,     \* the time zone of the host, which the Date methods use
    mounted,      \* whether the App component is mounted
    subscriptions,\* the listeners registered with Firebase and not unsubscribed
    storeUser,    \* the user at whose path the collection store lies
    otherStore    \* the session collection at the path of the other user

vars == <<store, usedIds, now, db, userId, isAuthReady, sessions, isTracking,
          error, jobInput, listener, feed, awaiting, calls, last,
          totalPeriod, timeZone, mounted, subscriptions, storeUser, otherStore>>

----------------------------------------------------------------------------
\* Bounds of the exploration

\* The handlers issue at most MaxCalls store calls; the clock stops MaxNow
\* milliseconds after its first reading
MaxCalls == 3
MaxNow == 30000

\* The store holds at most MaxHistory sessions of earlier use when the page is
\* opened on it
MaxHistory == 3

\* The minute counts formatted range up to MaxMinutes, beside those the page
\* shows
MaxMinutes == 125

----------------------------------------------------------------------------
\* Values

Null == <<>>
Some(v) == <<v>>
Val(o) == o[1]

MsPerMinute == 1000 * 60
MsPerHour == 60 * MsPerMinute
MsPerDay == 24 * MsPerHour
SecondsPerDay == MsPerDay \div 1000

\* A Date is its time value: whole days since 1970-01-01T00:00Z and the
\* milliseconds into that day (the time value itself does not fit an integer
\* of the model checker)
MakeDate(day, ms) == [day |-> day + ms \div MsPerDay, ms |-> ms % MsPerDay]

\* The Date ms milliseconds after date
AddMs(date, ms) == MakeDate(date.day, date.ms + ms)

\* a.getTime() - b.getTime()
getTimeDiff(a, b) == (a.day - b.day) * MsPerDay + (a.ms - b.ms)

\* a.getTime() > b.getTime()
Later(a, b) == a.day > b.day \/ (a.day = b.day /\ a.ms > b.ms)

\* The reading of the clock when the page is first opened: 2025-11-01T00:00Z
ClockStart == [day |-> 20393, ms |-> 0]

\* The clock advances by just under, or exactly, half a minute
TickSteps == {MsPerMinute \div 2 - 1, MsPerMinute \div 2}

Ids == 1..MaxCalls
Uid == "u1"
Uid2 == "u2"
Uids == {Uid, Uid2}

DefaultJobName ==
    <<"U","n","s","p","e","c","i","f","i","e","d"," ","P","r","o","j","e","c","t">>

\* Characters String.prototype.trim removes
WhiteSpace == {" ", "\t"}

JobInputs == { <<>>, <<" ", "\t">>, <<" ", "a", " ">> }

ErrStart == "Could not start session. Please try again."
ErrStop == "Could not stop session. Please check the console."
ErrDelete == "Could not delete session. Check the console."
ErrAuth == "Authentication failed. Please check console for details."
ErrConfig == "Firebase API Key is missing or invalid. Check the configuration block at the top of the file."

----------------------------------------------------------------------------
\* Pure helpers

\* Firestore stores a Date as a Timestamp (seconds, nanoseconds)
ToTimestamp(date) ==
    [seconds |-> date.day * SecondsPerDay + date.ms \div 1000,
     nanoseconds |-> (date.ms % 1000) * 1000000]

\* Timestamp.toDate()
toDate(ts) ==
    [day |-> ts.seconds \div SecondsPerDay,
     ms |-> (ts.seconds % SecondsPerDay) * 1000 + ts.nanoseconds \div 1000000]

\* Math.round(num / den) for den > 0: nearest integer, halves towards +infinity
MathRound(num, den) == (2 * num + den) \div (2 * den)

RECURSIVE TrimStart(_)
TrimStart(s) ==
    IF s = <<>> THEN s
    ELSE IF Head(s) \in WhiteSpace THEN TrimStart(Tail(s)) ELSE s

RECURSIVE TrimEnd(_)
TrimEnd(s) ==
    IF s = <<>> THEN s
    ELSE IF s[Len(s)] \in WhiteSpace THEN TrimEnd(SubSeq(s, 1, Len(s) - 1)) ELSE s

\* String.prototype.trim
trim(s) == TrimEnd(TrimStart(s))

\* Array.prototype.find: the first element satisfying the test, as an option
RECURSIVE FindOpen(_)
FindOpen(list) ==
    IF list = <<>> THEN Null
    ELSE IF Head(list).end_time = Null THEN Some(Head(list))
    ELSE FindOpen(Tail(list))

\* orderBy("start_time", "desc"): later start first, ties by document id.
\* The store's ids are numbered in the order it assigned them.
Before(st, a, b) ==
    LET ta == toDate(st[a].start_time)
        tb == toDate(st[b].start_time)
    IN  \/ Later(ta, tb)
        \/ ta = tb /\ a > b

RECURSIVE OrderDesc(_, _)
OrderDesc(st, ids) ==
    IF ids = {} THEN <<>>
    ELSE LET first == CHOOSE a \in ids : \A b \in ids \ {a} : Before(st, a, b)
         IN  <<first>> \o OrderDesc(st, ids \ {first})

\* The query result the store pushes to the listener
QuerySnapshot(st) ==
    LET order == OrderDesc(st, DOMAIN st)
    IN  [i \in 1..Len(order) |-> [id |-> order[i], data |-> st[order[i]]]]

\* snapshot.docs.map(...): documents to local sessions
fetchedSessions(docs) ==
    [i \in 1..Len(docs) |->
        [id |-> docs[i].id,
         start_time |-> toDate(docs[i].data.start_time),
         end_time |-> IF docs[i].data.end_time = Null THEN Null
                      ELSE Some(toDate(Val(docs[i].data.end_time))),
         duration |-> docs[i].data.duration,
         jobName |-> docs[i].data.jobName]]

OpenIds(st) == {id \in DOMAIN st : st[id].end_time = Null}

Remove(st, id) == [k \in DOMAIN st \ {id} |-> st[k]]

\* The store notifies the listener of every change of the query result
Notify(st) ==
    IF listener # Null /\ st # store THEN Append(feed, QuerySnapshot(st)) ELSE feed

NoCall == [kind |-> "none", id |-> 0, ok |-> FALSE]
Obs(op, confirm, call) == [op |-> op, confirm |-> confirm, call |-> call]
Quiet == Obs("none", "none", NoCall)

----------------------------------------------------------------------------
\* Dates in the time zone of the host

\* The zones the host may be in: the offset from UTC in summer and in winter,
\* and the instant in autumn 2025 at which summer time ends.  The rules hold
\* for the dates between the changes of spring 2025 and spring 2026.
TimeZones == {"UTC", "America/New_York", "Europe/Berlin"}

ZoneRules(tz) ==
    IF tz = "America/New_York"
    THEN [summer |-> -4 * MsPerHour, winter |-> -5 * MsPerHour,
          change |-> [day |-> 20394, ms |-> 6 * MsPerHour]]
    ELSE IF tz = "Europe/Berlin"
    THEN [summer |-> 2 * MsPerHour, winter |-> MsPerHour,
          change |-> [day |-> 20387, ms |-> MsPerHour]]
    ELSE [summer |-> 0, winter |-> 0, change |-> [day |-> 20387, ms |-> 0]]

\* The offset of local time at the instant date
LocalTZA(date) ==
    LET zone == ZoneRules(timeZone)
    IN  IF Later(zone.change, date) THEN zone.summer ELSE zone.winter

\* The local time of date: the day number of its local calendar day and the
\* milliseconds into that day
LocalTime(date) == AddMs(date, LocalTZA(date))

\* The instant of a local time; a local time that occurs twice when summer
\* time ends is taken with the offset before the change
FromLocalTime(local) ==
    LET zone == ZoneRules(timeZone)
        early == AddMs(local, -zone.summer)
    IN  IF Later(zone.change, early) THEN early ELSE AddMs(local, -zone.winter)

\* The calendar day with the given day number (proleptic Gregorian calendar)
CivilFromDays(days) ==
    LET z == days + 719468
        era == z \div 146097
        doe == z - era * 146097
        yoe == (doe - doe \div 1460 + doe \div 36524 - doe \div 146096) \div 365
        doy == doe - (365 * yoe + yoe \div 4 - yoe \div 100)
        mp == (5 * doy + 2) \div 153
        m == IF mp < 10 THEN mp + 3 ELSE mp - 9
    IN  [year |-> yoe + era * 400 + (IF m <= 2 THEN 1 ELSE 0),
         month |-> m,
         date |-> doy - (153 * mp + 2) \div 5 + 1]

\* The day number of a calendar day
DaysFromCivil(year, month, date) ==
    LET y == IF month <= 2 THEN year - 1 ELSE year
        era == y \div 400
        yoe == y - era * 400
        mp == (month + 9) % 12
        doy == (153 * mp + 2) \div 5 + date - 1
        doe == yoe * 365 + yoe \div 4 - yoe \div 100 + doy
    IN  era * 146097 + doe - 719468

\* Date.prototype.getDay: 0 is Sunday (day number 0 was a Thursday)
getDay(date) == (LocalTime(date).day + 4) % 7

\* Date.prototype.getDate: the day of the month
getDate(date) == CivilFromDays(LocalTime(date).day).date

\* Date.prototype.setDate: the day of the month is replaced, the local time
\* of day kept; a day below 1 counts back into the previous month
setDate(date, dayOfMonth) ==
    LET local == LocalTime(date)
        civil == CivilFromDays(local.day)
    IN  FromLocalTime([day |-> DaysFromCivil(civil.year, civil.month, 1) + dayOfMonth - 1,
                       ms |-> local.ms])

\* Date.prototype.setHours(h, m, s, ms)
setHours(date, h, m, s, ms) ==
    FromLocalTime([day |-> LocalTime(date).day,
                   ms |-> h * MsPerHour + m * MsPerMinute + s * 1000 + ms])

getWeekStart(date) ==
    LET day == getDay(date)
        diff == getDate(date) - day
    IN  setHours(setDate(date, diff), 0, 0, 0, 0)

\* Variant of getBiweekStart with the halves 1-14 and 15-end
getBiweekStartAt15(date) ==
    LET d == setHours(date, 0, 0, 0, 0)
        dayOfMonth == getDate(d)
        period == IF dayOfMonth <= 14 THEN 1 ELSE 15
    IN  setDate(d, period)

getBiweekStart(date) ==
    LET d == setHours(date, 0, 0, 0, 0)
        dayOfMonth == getDate(d)
        period == IF dayOfMonth <= 15 THEN 1 ELSE 16
    IN  setDate(d, period)

getMonthStart(date) == setDate(setHours(date, 0, 0, 0, 0), 1)

----------------------------------------------------------------------------
\* Numbers and dates as text

DecimalDigits == <<"0", "1", "2", "3", "4", "5", "6", "7", "8", "9">>

\* Number.prototype.toString of an integer
RECURSIVE toString(_)
toString(n) ==
    IF n < 0 THEN <<"-">> \o toString(-n)
    ELSE IF n < 10 THEN <<DecimalDigits[n + 1]>>
    ELSE toString(n \div 10) \o <<DecimalDigits[(n % 10) + 1]>>

\* String.prototype.padStart
RECURSIVE padStart(_, _, _)
padStart(s, targetLength, padString) ==
    IF Len(s) >= targetLength THEN s
    ELSE padStart(<<padString>> \o s, targetLength, padString)

\* The number a string of decimal digits denotes
RECURSIVE ParseDigits(_)
ParseDigits(s) ==
    IF s = <<>> THEN 0
    ELSE 10 * ParseDigits(SubSeq(s, 1, Len(s) - 1))
         + (CHOOSE k \in 0..9 : DecimalDigits[k + 1] = s[Len(s)])

\* date.toISOString().split('T')[0]: the calendar day of date in UTC, as
\* YYYY-MM-DD
toISODate(date) ==
    LET civil == CivilFromDays(date.day)
    IN  padStart(toString(civil.year), 4, "0") \o <<"-">>
        \o padStart(toString(civil.month), 2, "0") \o <<"-">>
        \o padStart(toString(civil.date), 2, "0")

\* new Date("YYYY-MM-DD"): midnight UTC of that day
ParseISODate(key) ==
    [day |-> DaysFromCivil(ParseDigits(SubSeq(key, 1, 4)),
                           ParseDigits(SubSeq(key, 6, 7)),
                           ParseDigits(SubSeq(key, 9, 10))),
     ms |-> 0]

\* A value that is neither null nor a number
NaN == <<"NaN", "NaN">>

isNaN(v) == Len(v) = 2

\* a % b of JavaScript: the remainder has the sign of a
Remainder(a, b) == IF a >= 0 THEN a % b ELSE -((-a) % b)

\* Variant of formatDuration that does not pad the minutes
formatDurationUnpadded(minutes) ==
    IF minutes = Null \/ isNaN(minutes) THEN <<"0", ":", "0", "0">>
    ELSE LET h == Val(minutes) \div 60
             m == Remainder(Val(minutes), 60)
         IN  toString(h) \o <<":">> \o toString(m)

\* minutes is null, NaN or a whole number
formatDuration(minutes) ==
    IF minutes = Null \/ isNaN(minutes) THEN <<"0", ":", "0", "0">>
    ELSE LET h == Val(minutes) \div 60
             m == Remainder(Val(minutes), 60)
         IN  toString(h) \o <<":">> \o padStart(toString(m), 2, "0")

----------------------------------------------------------------------------
\* The component after its first render and initialisation effect

\* The listeners registered with Firebase: how many auth state listeners, and
\* the users on whose sessions a snapshot listener is registered, in the
\* order of registration
Unsubscribed == [onAuthStateChanged |-> 0, onSnapshot |-> <<>>]

\* The initialisation effect registers the auth state listener
AuthSubscribed == [onAuthStateChanged |-> 1, onSnapshot |-> <<>>]

\* useState initial values, then the initialisation effect: a valid
\* configuration yields db and the auth state listener, an invalid one an
\* error and nothing else
Mounted(configOk) ==
    /\ db = (IF configOk THEN Some("firestore") ELSE Null)
    /\ userId = Null
    /\ isAuthReady = FALSE
    /\ sessions = <<>>
    /\ isTracking = FALSE
    /\ error = (IF configOk THEN Null ELSE Some(ErrConfig))
    /\ jobInput = <<>>
    /\ totalPeriod = "weekly"
    /\ listener = Null
    /\ feed = <<>>
    /\ awaiting = <<>>
    /\ last = Quiet
    /\ mounted = TRUE
    /\ subscriptions = (IF configOk THEN AuthSubscribed ELSE Unsubscribed)

Init ==
    /\ store = <<>>
    /\ usedIds = {}
    /\ now = ClockStart
    /\ calls = 0
    /\ timeZone = "UTC"
    /\ storeUser = Uid
    /\ otherStore = <<>>
    /\ \E configOk \in BOOLEAN : Mounted(configOk)

----------------------------------------------------------------------------
\* Environment

\* Time passes
Tick(d) ==
    /\ getTimeDiff(now, ClockStart) + d <= MaxNow
    /\ now' = AddMs(now, d)
    /\ last' = Quiet
    /\ UNCHANGED <<store, usedIds, db, userId, isAuthReady, sessions, isTracking,
                   error, jobInput, listener, feed, awaiting, calls,
                   totalPeriod, timeZone,
                   mounted, subscriptions, storeUser, otherStore>>

\* The clock of the host is set back (new Date() reads the wall clock, which
\* is not monotonic), here to just before its first reading
ClockSetBack ==
    /\ Later(now, ClockStart)
    /\ now' = AddMs(ClockStart, -1)
    /\ last' = Quiet
    /\ UNCHANGED <<store, usedIds, db, userId, isAuthReady, sessions, isTracking,
                   error, jobInput, listener, feed, awaiting, calls,
                   totalPeriod, timeZone,
                   mounted, subscriptions, storeUser, otherStore>>

\* The page is closed and opened again: both effects clean up, the component
\* state starts over, the store keeps its documents
Reload ==
    /\ db' = db
    /\ userId' = Null
    /\ isAuthReady' = FALSE
    /\ sessions' = <<>>
    /\ isTracking' = FALSE
    /\ error' = (IF db # Null THEN Null ELSE Some(ErrConfig))
    /\ jobInput' = <<>>
    /\ totalPeriod' = "weekly"
    /\ listener' = Null
    /\ feed' = <<>>
    /\ awaiting' = <<>>
    /\ last' = Quiet
    /\ mounted' = TRUE
    /\ subscriptions' = (IF db # Null THEN AuthSubscribed ELSE Unsubscribed)
    /\ UNCHANGED <<store, usedIds, now, calls, timeZone, storeUser, otherStore>>

\* Variant of Unmount whose effects return no cleanup
UnmountWithoutCleanup ==
    /\ mounted
    /\ mounted' = FALSE
    /\ last' = Quiet
    /\ UNCHANGED <<store, usedIds, now, db, userId, isAuthReady, sessions, isTracking,
                   error, jobInput, listener, feed, awaiting, calls,
                   totalPeriod, timeZone, subscriptions, storeUser, otherStore>>

\* The component is discarded: both effects clean up, which unsubscribes the
\* auth state listener and the snapshot listener of the latest run of the
\* data listener effect.  The state cells are left as they were; updates to
\* them by continuations of this instance have no effect any more.
Unmount ==
    /\ mounted
    /\ mounted' = FALSE
    /\ subscriptions' =
          LET subs == subscriptions.onSnapshot
          IN  [onAuthStateChanged |-> 0,
               onSnapshot |-> IF listener = Null THEN subs
                              ELSE SubSeq(subs, 1, Len(subs) - 1)]
    /\ listener' = Null
    /\ feed' = <<>>
    /\ awaiting' = <<>>
    /\ last' = Quiet
    /\ UNCHANGED <<store, usedIds, now, db, userId, isAuthReady, sessions, isTracking,
                   error, jobInput, calls, totalPeriod, timeZone, storeUser, otherStore>>

\* A new instance of the component is mounted
Mount ==
    /\ ~mounted
    /\ Reload

----------------------------------------------------------------------------
\* Effects and callbacks

\* The data listener effect, run after a render that changed one of its
\* dependencies [db, isAuthReady, userId]: the previous subscription is
\* cleaned up, and a new one is made when all three are set.  The callback
\* closes over the isTracking of that render.
EffectListener(ready2, uid2) ==
    IF <<ready2, uid2>> = <<isAuthReady, userId>> THEN listener
    ELSE IF db = Null \/ ~ready2 \/ uid2 = Null THEN Null
    ELSE Some([isTracking |-> isTracking])

\* The collection at artifacts/<appId>/users/<uid>/sessions
CollectionOf(uid) == IF uid = storeUser THEN store ELSE otherStore

\* The first snapshot of a new subscription is the collection of its user
EffectFeed(ready2, uid2) ==
    IF <<ready2, uid2>> = <<isAuthReady, userId>> THEN feed
    ELSE IF db = Null \/ ~ready2 \/ uid2 = Null THEN <<>>
    ELSE <<QuerySnapshot(CollectionOf(Val(uid2)))>>

\* The snapshot listeners registered after the data listener effect: the
\* cleanup of the previous run unsubscribes the listener that run registered
\* (the latest), then the new run registers one on the sessions of uid2
EffectSubscriptions(ready2, uid2) ==
    LET subs == subscriptions.onSnapshot
        cleaned == IF listener = Null THEN subs ELSE SubSeq(subs, 1, Len(subs) - 1)
    IN  IF <<ready2, uid2>> = <<isAuthReady, userId>> THEN subs
        ELSE IF db = Null \/ ~ready2 \/ uid2 = Null THEN cleaned
        ELSE Append(cleaned, Val(uid2))

\* The auth state listener: a signed-in user sets userId; otherwise a sign-in
\* is attempted and its failure is reported.  Either way auth is ready.
\* From then on store stands for the collection of that user.
onAuthStateChanged(user, signInOk) ==
    /\ db # Null
    /\ subscriptions.onAuthStateChanged > 0
    /\ LET uid2 == IF user # Null THEN user ELSE userId
           other == uid2 # Null /\ Val(uid2) # storeUser
       IN  /\ userId' = uid2
           /\ error' = IF user = Null /\ ~signInOk THEN Some(ErrAuth) ELSE error
           /\ isAuthReady' = TRUE
           /\ listener' = EffectListener(TRUE, uid2)
           /\ feed' = EffectFeed(TRUE, uid2)
           /\ subscriptions' = [subscriptions EXCEPT !.onSnapshot = EffectSubscriptions(TRUE, uid2)]
           /\ store' = (IF other THEN otherStore ELSE store)
           /\ otherStore' = (IF other THEN store ELSE otherStore)
           /\ storeUser' = (IF other THEN Val(uid2) ELSE storeUser)
    /\ last' = Quiet
    /\ UNCHANGED <<usedIds, now, db, sessions, isTracking, jobInput, awaiting, calls,
                   totalPeriod, timeZone, mounted>>

\* Variant of onSnapshot that keeps tracking once it tracks
onSnapshotKeepTracking ==
    /\ listener # Null
    /\ subscriptions.onSnapshot # <<>>
    /\ feed # <<>>
    /\ LET fetched == fetchedSessions(Head(feed))
           activeSession == FindOpen(fetched)
       IN  /\ sessions' = fetched
           /\ isTracking' = (isTracking \/ activeSession # Null)
           /\ jobInput' = IF activeSession # Null THEN Val(activeSession).jobName
                          ELSE IF Val(listener).isTracking THEN <<>>
                          ELSE jobInput
    /\ feed' = Tail(feed)
    /\ last' = Quiet
    /\ UNCHANGED <<store, usedIds, now, db, userId, isAuthReady, error, listener, awaiting, calls,
                   totalPeriod, timeZone,
                   mounted, subscriptions, storeUser, otherStore>>

\* The snapshot callback: the delivered list replaces the local one
onSnapshot ==
    /\ listener # Null
    /\ subscriptions.onSnapshot # <<>>
    /\ feed # <<>>
    /\ LET fetched == fetchedSessions(Head(feed))
           activeSession == FindOpen(fetched)
       IN  /\ sessions' = fetched
           /\ isTracking' = (activeSession # Null)
           /\ jobInput' = IF activeSession # Null THEN Val(activeSession).jobName
                          ELSE IF Val(listener).isTracking THEN <<>>
                          ELSE jobInput
    /\ feed' = Tail(feed)
    /\ last' = Quiet
    /\ UNCHANGED <<store, usedIds, now, db, userId, isAuthReady, error, listener, awaiting, calls,
                   totalPeriod, timeZone,
                   mounted, subscriptions, storeUser, otherStore>>

\* The job name input's onChange; the input is disabled while tracking
\* and until auth is ready
setJobInput(v) ==
    /\ mounted
    /\ ~(isTracking \/ ~isAuthReady)
    /\ jobInput' = v
    /\ last' = Quiet
    /\ UNCHANGED <<store, usedIds, now, db, userId, isAuthReady, sessions, isTracking,
                   error, listener, feed, awaiting, calls,
                   totalPeriod, timeZone,
                   mounted, subscriptions, storeUser, otherStore>>

----------------------------------------------------------------------------
\* Store calls

\* addDoc(collection, data)
addDoc(st, id, data) == (id :> data) @@ st

\* updateDoc(docRef, fields): the named fields are replaced, the others kept
updateDoc(st, id, fields) ==
    [st EXCEPT ![id] =
        [f \in DOMAIN st[id] \cup DOMAIN fields |->
            IF f \in DOMAIN fields THEN fields[f] ELSE st[id][f]]]

\* deleteDoc(docRef); deleting a document that is not there succeeds
deleteDoc(st, id) == Remove(st, id)

\* Variant of NewSession that stores the input as typed
NewSessionUntrimmed(t, input) ==
    [start_time |-> ToTimestamp(t),
     end_time |-> Null,
     duration |-> Null,
     jobName |-> IF input # <<>> THEN input ELSE DefaultJobName]

\* The document startTracking creates
NewSession(t, input) ==
    [start_time |-> ToTimestamp(t),
     end_time |-> Null,
     duration |-> Null,
     jobName |-> IF trim(input) # <<>> THEN trim(input) ELSE DefaultJobName]

\* Variants of StopFields: one forgets the duration, one rewrites the start
StopFieldsNoDuration(t, startTime) ==
    [end_time |-> Some(ToTimestamp(t))]

StopFieldsResetStart(t, startTime) ==
    [start_time |-> ToTimestamp(t),
     end_time |-> Some(ToTimestamp(t)),
     duration |-> Some(MathRound(getTimeDiff(t, startTime), MsPerMinute))]

\* The fields stopTracking writes for a session that started at startTime
StopFields(t, startTime) ==
    LET durationMs == getTimeDiff(t, startTime)
        durationMinutes == MathRound(durationMs, MsPerMinute)
    IN  [end_time |-> Some(ToTimestamp(t)), duration |-> Some(durationMinutes)]

ErrorOf(op) ==
    IF op = "startTracking" THEN ErrStart
    ELSE IF op = "stopTracking" THEN ErrStop
    ELSE ErrDelete

\* Variant of Issue: the catch block swallows the rejection
IssueSilent(op, ok) ==
    /\ calls < MaxCalls
    /\ calls' = calls + 1
    /\ error' = error
    /\ awaiting' = IF ok /\ op = "stopTracking" THEN Append(awaiting, op) ELSE awaiting

\* A call was issued and the handler suspends until its promise settles.
\* A rejection lands in the catch block, which sets error; no handler or
\* callback reads error, so the catch block is run with the call.  After a
\* success only stopTracking has something left to do (it clears jobInput,
\* which startTracking and the snapshot callback also use): it is kept in
\* awaiting until Settle.
Issue(op, ok) ==
    /\ calls < MaxCalls
    /\ calls' = calls + 1
    /\ error' = IF ok THEN error ELSE Some(ErrorOf(op))
    /\ awaiting' = IF ok /\ op = "stopTracking" THEN Append(awaiting, op) ELSE awaiting

Skip(op, confirm) ==
    /\ last' = Obs(op, confirm, NoCall)
    /\ UNCHANGED <<store, usedIds, now, db, userId, isAuthReady, sessions, isTracking,
                   error, jobInput, listener, feed, awaiting, calls,
                   totalPeriod, timeZone,
                   mounted, subscriptions, storeUser, otherStore>>

----------------------------------------------------------------------------
\* Handlers

\* Variant of startTracking that checks db only
startTrackingWithoutUser(id, ok) ==
    IF db = Null THEN Skip("startTracking", "none")
    ELSE
        /\ ok => id \in Ids /\ id = Cardinality(usedIds) + 1
        /\ Issue("startTracking", ok)
        /\ store' = IF ok THEN addDoc(store, id, NewSession(now, jobInput)) ELSE store
        /\ usedIds' = IF ok THEN usedIds \cup {id} ELSE usedIds
        /\ feed' = Notify(store')
        /\ last' = Obs("startTracking", "none",
                       [kind |-> "addDoc", id |-> IF ok THEN id ELSE 0, ok |-> ok])
        /\ UNCHANGED <<now, db, userId, isAuthReady, sessions, isTracking,
                       jobInput, listener, totalPeriod, timeZone,
                       mounted, subscriptions, storeUser, otherStore>>

startTracking(id, ok) ==
    IF db = Null \/ userId = Null THEN Skip("startTracking", "none")
    ELSE
        /\ ok => id \in Ids /\ id = Cardinality(usedIds) + 1
        /\ Issue("startTracking", ok)
        /\ store' = IF ok THEN addDoc(store, id, NewSession(now, jobInput)) ELSE store
        /\ usedIds' = IF ok THEN usedIds \cup {id} ELSE usedIds
        /\ feed' = Notify(store')
        /\ last' = Obs("startTracking", "none",
                       [kind |-> "addDoc", id |-> IF ok THEN id ELSE 0, ok |-> ok])
        /\ UNCHANGED <<now, db, userId, isAuthReady, sessions, isTracking,
                       jobInput, listener,
                       totalPeriod, timeZone,
                       mounted, subscriptions, storeUser, otherStore>>

\* stopTracking once it has found the open session in the local list
StopActive(activeSession, ok) ==
    LET id == activeSession.id
        startTime == activeSession.start_time
    IN  /\ ok => id \in DOMAIN store
        /\ Issue("stopTracking", ok)
        /\ store' = IF ok THEN updateDoc(store, id, StopFields(now, startTime))
                    ELSE store
        /\ feed' = Notify(store')
        /\ last' = Obs("stopTracking", "none",
                       [kind |-> "updateDoc", id |-> id, ok |-> ok])
        /\ UNCHANGED <<usedIds, now, db, userId, isAuthReady, sessions, isTracking,
                       jobInput, listener,
                       totalPeriod, timeZone,
                       mounted, subscriptions, storeUser, otherStore>>

\* Variant of stopTracking without the check for a missing open session:
\* reading its start_time throws, and the catch block reports it
stopTrackingUnchecked(ok) ==
    IF db = Null \/ userId = Null THEN Skip("stopTracking", "none")
    ELSE IF FindOpen(sessions) = Null
    THEN /\ error' = Some(ErrStop)
         /\ last' = Obs("stopTracking", "none", NoCall)
         /\ UNCHANGED <<store, usedIds, now, db, userId, isAuthReady, sessions,
                        isTracking, jobInput, listener, feed, awaiting, calls,
                   totalPeriod, timeZone,
                   mounted, subscriptions, storeUser, otherStore>>
    ELSE StopActive(Val(FindOpen(sessions)), ok)

stopTracking(ok) ==
    IF db = Null \/ userId = Null THEN Skip("stopTracking", "none")
    ELSE IF FindOpen(sessions) = Null THEN Skip("stopTracking", "none")
    ELSE StopActive(Val(FindOpen(sessions)), ok)

\* The remove deleteSession issues once the user has confirmed
RemoveConfirmed(sessionId, ok) ==
    /\ Issue("deleteSession", ok)
    /\ store' = IF ok THEN deleteDoc(store, sessionId) ELSE store
    /\ feed' = Notify(store')
    /\ UNCHANGED <<usedIds, now, db, userId, isAuthReady, sessions, isTracking,
                   jobInput, listener,
                   totalPeriod, timeZone,
                   mounted, subscriptions, storeUser, otherStore>>

\* Variant of deleteSession that does not wait for the answer of the confirm step
deleteSessionUnconfirmed(sessionId, confirmed, ok) ==
    IF db = Null \/ userId = Null THEN Skip("deleteSession", "none")
    ELSE
        /\ RemoveConfirmed(sessionId, ok)
        /\ last' = Obs("deleteSession", IF confirmed THEN "yes" ELSE "no",
                       [kind |-> "deleteDoc", id |-> sessionId, ok |-> ok])

deleteSession(sessionId, confirmed, ok) ==
    IF db = Null \/ userId = Null THEN Skip("deleteSession", "none")
    ELSE IF ~confirmed THEN Skip("deleteSession", "no")
    ELSE
        /\ RemoveConfirmed(sessionId, ok)
        /\ last' = Obs("deleteSession", "yes",
                       [kind |-> "deleteDoc", id |-> sessionId, ok |-> ok])

\* The promise stopTracking awaits is fulfilled: the handler clears the input
Settle ==
    /\ awaiting # <<>>
    /\ jobInput' = <<>>
    /\ awaiting' = Tail(awaiting)
    /\ last' = Quiet
    /\ UNCHANGED <<store, usedIds, now, db, userId, isAuthReady, sessions, isTracking,
                   error, listener, feed, calls,
                   totalPeriod, timeZone,
                   mounted, subscriptions, storeUser, otherStore>>

----------------------------------------------------------------------------
\* The controls the component renders

\* The START WORK / STOP WORK button
ClickStartStop(id, ok) ==
    /\ mounted
    /\ isAuthReady
    /\ IF isTracking THEN stopTracking(ok) ELSE startTracking(id, ok)

\* The rows of the sessions table: the sessions the aggregator grouped
RenderedRows ==
    {sessions[i].id : i \in {j \in 1..Len(sessions) : sessions[j].duration # Null}}

\* The delete button of a row, and the answer to window.confirm
ClickDelete(id, confirmed, ok) ==
    /\ mounted
    /\ id \in RenderedRows
    /\ deleteSession(id, confirmed, ok)

----------------------------------------------------------------------------
\* The totals view

TimePeriodOptions == {"weekly", "biweekly", "monthly"}

\* The period selector's onChange; the page shows it once loading is over
setTotalPeriod(v) ==
    /\ mounted
    /\ (isAuthReady \/ db = Null)
    /\ totalPeriod' = v
    /\ last' = Quiet
    /\ UNCHANGED <<store, usedIds, now, db, userId, isAuthReady, sessions, isTracking,
                   error, jobInput, listener, feed, awaiting, calls, timeZone,
                   mounted, subscriptions, storeUser, otherStore>>

\* The grouping function groupedSessions selects
getPeriodStart(date) ==
    IF totalPeriod = "monthly" THEN getMonthStart(date)
    ELSE IF totalPeriod = "biweekly" THEN getBiweekStart(date)
    ELSE getWeekStart(date)

\* groups[periodKey] after session is added: the group is made when the key is
\* new; the groups are kept in the order their keys were inserted
AddToGroup(groups, session) ==
    LET periodStartDate == getPeriodStart(session.start_time)
        periodKey == toISODate(periodStartDate)
        made == IF \E i \in DOMAIN groups : groups[i].key = periodKey THEN groups
                ELSE Append(groups, [key |-> periodKey,
                                     start |-> periodStartDate,
                                     sessions |-> <<>>,
                                     totalMinutes |-> 0])
        at == CHOOSE i \in DOMAIN made : made[i].key = periodKey
    IN  [made EXCEPT ![at].sessions = Append(@, session),
                     ![at].totalMinutes = @ + Val(session.duration)]

\* Variant of Accumulate that makes a group for every session
RECURSIVE AccumulateUngrouped(_, _)
AccumulateUngrouped(list, acc) ==
    IF list = <<>> THEN acc
    ELSE LET session == Head(list)
         IN  IF session.duration = Null THEN AccumulateUngrouped(Tail(list), acc)
             ELSE AccumulateUngrouped(Tail(list),
                    [groups |-> Append(acc.groups,
                                  [key |-> toISODate(getPeriodStart(session.start_time)),
                                   start |-> getPeriodStart(session.start_time),
                                   sessions |-> <<session>>,
                                   totalMinutes |-> Val(session.duration)]),
                     totalDurationMinutes |-> acc.totalDurationMinutes + Val(session.duration)])

\* sessions.forEach(...): sessions without a duration are passed over
RECURSIVE Accumulate(_, _)
Accumulate(list, acc) ==
    IF list = <<>> THEN acc
    ELSE LET session == Head(list)
         IN  IF session.duration = Null THEN Accumulate(Tail(list), acc)
             ELSE Accumulate(Tail(list),
                    [groups |-> AddToGroup(acc.groups, session),
                     totalDurationMinutes |-> acc.totalDurationMinutes + Val(session.duration)])

\* Variant of SortGroups with the comparator new Date(a) - new Date(b)
RECURSIVE SortGroupsAscending(_)
SortGroupsAscending(groups) ==
    IF groups = <<>> THEN <<>>
    ELSE LET first == CHOOSE i \in DOMAIN groups :
                        /\ \A j \in DOMAIN groups :
                             ~Later(ParseISODate(groups[i].key), ParseISODate(groups[j].key))
                        /\ \A j \in 1..(i - 1) :
                             Later(ParseISODate(groups[j].key), ParseISODate(groups[i].key))
             rest == [k \in 1..(Len(groups) - 1) |->
                        IF k < first THEN groups[k] ELSE groups[k + 1]]
         IN  <<groups[first]>> \o SortGroupsAscending(rest)

\* Object.keys(groups).sort((a, b) => new Date(b) - new Date(a)).map(key =>
\* groups[key]): the latest key first, equal keys in their given order
RECURSIVE SortGroups(_)
SortGroups(groups) ==
    IF groups = <<>> THEN <<>>
    ELSE LET first == CHOOSE i \in DOMAIN groups :
                        /\ \A j \in DOMAIN groups :
                             ~Later(ParseISODate(groups[j].key), ParseISODate(groups[i].key))
                        /\ \A j \in 1..(i - 1) :
                             Later(ParseISODate(groups[i].key), ParseISODate(groups[j].key))
             rest == [k \in 1..(Len(groups) - 1) |->
                        IF k < first THEN groups[k] ELSE groups[k + 1]]
         IN  <<groups[first]>> \o SortGroups(rest)

\* The memo groupedSessions of the current sessions and totalPeriod; for an
\* empty list it is {} and both fields are undefined
groupedSessions ==
    IF Len(sessions) = 0 THEN [sortedGroups |-> Null, totalDurationMinutes |-> Null]
    ELSE LET acc == Accumulate(sessions, [groups |-> <<>>, totalDurationMinutes |-> 0])
         IN  [sortedGroups |-> Some(SortGroups(acc.groups)),
              totalDurationMinutes |-> Some(acc.totalDurationMinutes)]

\* Variant of totalMinutesAcrossAllPeriods that shows the latest period only
totalMinutesOfLatestPeriod ==
    IF groupedSessions.sortedGroups = Null THEN 0
    ELSE IF Val(groupedSessions.sortedGroups) = <<>> THEN 0
    ELSE Val(groupedSessions.sortedGroups)[1].totalMinutes

\* groupedSessions.totalDurationMinutes || 0
totalMinutesAcrossAllPeriods ==
    IF groupedSessions.totalDurationMinutes = Null THEN 0
    ELSE IF Val(groupedSessions.totalDurationMinutes) = 0 THEN 0
    ELSE Val(groupedSessions.totalDurationMinutes)

\* The groups the sessions table shows
RenderedGroups ==
    IF groupedSessions.sortedGroups = Null THEN <<>>
    ELSE Val(groupedSessions.sortedGroups)

----------------------------------------------------------------------------
\* Specifications

Environment ==
    \/ \E d \in TickSteps : Tick(d)
    \/ Reload
    \/ \E user \in {Null, Some(Uid)}, signInOk \in BOOLEAN : onAuthStateChanged(user, signInOk)
    \/ onSnapshot
    \/ Settle
    \/ \E v \in JobInputs : setJobInput(v)

Next ==
    \/ Environment
    \/ \E id \in Ids, ok \in BOOLEAN : ClickStartStop(id, ok)
    \/ \E id \in Ids, confirmed \in BOOLEAN, ok \in BOOLEAN : ClickDelete(id, confirmed, ok)

Spec == Init /\ [][Next]_vars

NextApi ==
    \/ Environment
    \/ \E id \in Ids, ok \in BOOLEAN : startTracking(id, ok)
    \/ \E ok \in BOOLEAN : stopTracking(ok)
    \/ \E id \in Ids, confirmed \in BOOLEAN, ok \in BOOLEAN : deleteSession(id, confirmed, ok)

SpecApi == Init /\ [][NextApi]_vars

\* The wired component on a host whose clock may be set back
NextClock ==
    \/ Next
    \/ ClockSetBack

SpecClock == Init /\ [][NextClock]_vars

\* The wired component when it is discarded and mounted again and when the
\* signed-in user changes
NextLife ==
    \/ Unmount
    \/ Mount
    \/ \E user \in {Null} \cup {Some(u) : u \in Uids}, signInOk \in BOOLEAN :
          onAuthStateChanged(user, signInOk)
    \/ onSnapshot
    \/ Settle
    \/ \E id \in Ids, ok \in BOOLEAN : ClickStartStop(id, ok)
    \/ \E id \in Ids, confirmed \in BOOLEAN, ok \in BOOLEAN : ClickDelete(id, confirmed, ok)

SpecLife == Init /\ [][NextLife]_vars

\* The page opened by a signed-in user whose store holds the sessions of
\* earlier use, in any of the time zones
HistoryTimes ==
    << [day |-> 20388, ms |-> 15 * MsPerHour],
       [day |-> 20393, ms |-> 12 * MsPerHour],
       [day |-> 20401, ms |-> 4 * MsPerHour + 30 * MsPerMinute],
       [day |-> 20408, ms |-> 4 * MsPerHour + 59 * MsPerMinute],
       [day |-> 20408, ms |-> 5 * MsPerHour + MsPerMinute],
       [day |-> 20454, ms |-> 10 * MsPerHour],
       [day |-> 20455, ms |-> 9 * MsPerHour] >>

HistoryMinutes == <<Some(45), Some(90), Some(30), Some(0), Some(5), Some(600), Null>>

\* The k-th session of earlier use, as startTracking and stopTracking wrote it
HistoryDoc(k) ==
    LET open == NewSession(HistoryTimes[k], <<"a">>)
    IN  IF HistoryMinutes[k] = Null THEN open
        ELSE [f \in DOMAIN open |->
                IF f = "end_time"
                THEN Some(ToTimestamp(AddMs(HistoryTimes[k], Val(HistoryMinutes[k]) * MsPerMinute)))
                ELSE IF f = "duration" THEN HistoryMinutes[k]
                ELSE open[f]]

\* The store numbers its documents in the order they were created
Histories ==
    LET picks == UNION {[1..n -> DOMAIN HistoryTimes] : n \in 0..MaxHistory}
        inOrder == {p \in picks : \A i \in 1..(Len(p) - 1) : p[i] <= p[i + 1]}
    IN  {[id \in DOMAIN p |-> HistoryDoc(p[id])] : p \in inOrder}

InitView ==
    /\ store \in Histories
    /\ usedIds = DOMAIN store
    /\ now = AddMs(HistoryTimes[Len(HistoryTimes)], MsPerHour)
    /\ calls = 0
    /\ timeZone \in TimeZones
    /\ db = Some("firestore")
    /\ userId = Some(Uid)
    /\ isAuthReady = TRUE
    /\ sessions = <<>>
    /\ isTracking = FALSE
    /\ error = Null
    /\ jobInput = <<>>
    /\ totalPeriod = "weekly"
    /\ listener = Some([isTracking |-> FALSE])
    /\ feed = <<QuerySnapshot(store)>>
    /\ awaiting = <<>>
    /\ last = Quiet
    /\ mounted = TRUE
    /\ subscriptions = [onAuthStateChanged |-> 1, onSnapshot |-> <<Uid>>]
    /\ storeUser = Uid
    /\ otherStore = <<>>

NextView ==
    \/ onSnapshot
    \/ \E v \in TimePeriodOptions : setTotalPeriod(v)

SpecView == InitView /\ [][NextView]_vars

----------------------------------------------------------------------------
\* Properties of the session lifecycle

\* The step is a run of the named handler
Ran(op) == last'.op = op

\* The step issued a store call that was rejected
CallFailed == last'.call.kind # "none" /\ ~last'.call.ok

\* The step is the snapshot callback processing the head of the feed
SnapshotProcessed ==
    /\ listener # Null
    /\ listener' = listener
    /\ feed # <<>>
    /\ feed' = Tail(feed)
    /\ sessions' = fetchedSessions(Head(feed))

LocalOpenIds(list) == {list[i].id : i \in {j \in 1..Len(list) : list[j].end_time = Null}}
LocalIds(list) == {list[i].id : i \in 1..Len(list)}

\* C1: in every reachable state of the store at most one session has no
\* endTime.
C1_AtMostOneOpenSession == Cardinality(OpenIds(store)) <= 1

\* C2: a start invoked while the store already holds an open session creates
\* no session.
C2_StartWhileActiveCreatesNothing ==
    [][(Ran("startTracking") /\ OpenIds(store) # {}) => DOMAIN store' = DOMAIN store]_vars

\* C3: every session of the store has durationMinutes exactly when it has
\* endTime.
C3_DurationIffEndTime ==
    \A id \in DOMAIN store : (store[id].duration # Null) <=> (store[id].end_time # Null)

\* C3 witness: a stop has written a session while another session is open.
C3_StoppedAndOpen ==
    /\ last.op = "stopTracking" /\ last.call.ok
    /\ store[last.call.id].end_time # Null
    /\ store[last.call.id].duration # Null
    /\ OpenIds(store) # {}

\* C4: once a session has an endTime, no step changes its endTime or its
\* durationMinutes.
C4_ClosedSessionNeverRewritten ==
    [][\A id \in DOMAIN store \cap DOMAIN store' :
          store[id].end_time # Null =>
              /\ store'[id].end_time = store[id].end_time
              /\ store'[id].duration = store[id].duration]_vars

\* C5: a successful stop sets endTime to now and durationMinutes to the
\* minutes since startTime rounded to the nearest whole minute, halves up;
\* and when the client processes a snapshot in which a session it held open
\* has been closed, it is Idle afterwards.
C5_StopClosesRoundsAndIdles ==
    [][/\ (Ran("stopTracking") /\ last'.call.ok) =>
            LET id == last'.call.id
                ms == getTimeDiff(now, toDate(store[id].start_time))
                m == Val(store'[id].duration)
            IN  /\ toDate(Val(store'[id].end_time)) = now
                /\ 2 * ms >= (2 * m - 1) * MsPerMinute
                /\ 2 * ms < (2 * m + 1) * MsPerMinute
       /\ (SnapshotProcessed /\ LocalOpenIds(sessions) \cap LocalIds(sessions') # {}
             /\ ~(LocalOpenIds(sessions) \cap LocalIds(sessions') \subseteq LocalOpenIds(sessions')))
            => ~isTracking']_vars

\* C6: a stop invoked when the local session list holds no open session issues
\* no store call, sets no error and leaves the state Idle.
C6_StopWithoutOpenSessionIsNoop ==
    [][(Ran("stopTracking") /\ db # Null /\ userId # Null /\ LocalOpenIds(sessions) = {}) =>
          /\ last'.call.kind = "none"
          /\ store' = store
          /\ feed' = feed
          /\ awaiting' = awaiting
          /\ error' = error
          /\ ~isTracking /\ ~isTracking'
          /\ sessions' = sessions]_vars

\* C6 witness: stopTracking has run for a signed-in user whose list has no
\* open session.
C6_StoppedWhileIdle ==
    /\ last.op = "stopTracking"
    /\ last.call.kind = "none"
    /\ db # Null /\ userId # Null
    /\ LocalOpenIds(sessions) = {}
    /\ ~isTracking

\* C7: a rejected store call leaves the store, the local session list and
\* isTracking as they were and sets an error; no handler changes the local
\* session list or isTracking itself; and the store changes only in a step in
\* which a handler's call succeeded (no write is issued on its own).
C7_FailedWriteChangesNothing ==
    [][/\ CallFailed =>
            /\ store' = store
            /\ feed' = feed
            /\ sessions' = sessions
            /\ isTracking' = isTracking
            /\ error' # Null
       /\ last'.op \in {"startTracking", "stopTracking", "deleteSession"} =>
            /\ sessions' = sessions
            /\ isTracking' = isTracking
       /\ store' # store =>
            /\ last'.op \in {"startTracking", "stopTracking", "deleteSession"}
            /\ last'.call.kind # "none" /\ last'.call.ok]_vars

\* C7 witness: an update was rejected and its error is showing.
C7_UpdateRejected ==
    /\ last.op = "stopTracking"
    /\ last.call.kind = "updateDoc" /\ ~last.call.ok
    /\ error = Some(ErrStop)
    /\ isTracking

\* C8: a delete whose confirm step was declined makes no store call and leaves
\* the store unchanged; a session leaves the store only in a deleteSession step
\* whose confirm step was answered yes.
C8_NoRemoveWithoutConfirm ==
    [][/\ (Ran("deleteSession") /\ last'.confirm # "yes") =>
            /\ last'.call.kind = "none"
            /\ store' = store
       /\ ~(DOMAIN store \subseteq DOMAIN store') =>
            /\ Ran("deleteSession")
            /\ last'.confirm = "yes"
            /\ last'.call.kind = "deleteDoc"]_vars

\* C8 witness: the confirm step was declined for a session the store holds.
C8_ConfirmDeclined ==
    /\ last.op = "deleteSession"
    /\ last.confirm = "no"
    /\ RenderedRows \cap DOMAIN store # {}

\* C9: the open session can be deleted while Active (it has a delete control),
\* and when the client processes a snapshot from which a session it held open
\* has disappeared, it is Idle afterwards.
C9_OpenSessionDeletable ==
    /\ [](LocalOpenIds(sessions) \subseteq RenderedRows)
    /\ [][(SnapshotProcessed /\ ~(LocalOpenIds(sessions) \subseteq LocalIds(sessions')))
            => ~isTracking']_vars

\* C10: no step changes the startTime or the jobName of a session, and a stop
\* changes nothing but the endTime and durationMinutes of the session it closes.
C10_StartTimeAndJobNameImmutable ==
    [][/\ \A id \in DOMAIN store \cap DOMAIN store' :
            /\ store'[id].start_time = store[id].start_time
            /\ store'[id].jobName = store[id].jobName
       /\ Ran("stopTracking") =>
            /\ DOMAIN store' = DOMAIN store
            /\ \A id \in DOMAIN store :
                 /\ id # last'.call.id => store'[id] = store[id]
                 /\ DOMAIN store'[id] = DOMAIN store[id]]_vars

\* C10 witness: a stop has closed one of two sessions, some time after it
\* started.
C10_StoppedOneOfTwo ==
    /\ last.op = "stopTracking" /\ last.call.ok
    /\ Cardinality(DOMAIN store) = 2
    /\ Later(toDate(Val(store[last.call.id].end_time)), toDate(store[last.call.id].start_time))

\* r is input without its leading and trailing white space
TrimmedTo(input, r) ==
    \E i \in 1..(Len(input) + 1), j \in 0..Len(input) :
        /\ r = SubSeq(input, i, j)
        /\ \A k \in 1..(i - 1) : input[k] \in WhiteSpace
        /\ \A k \in (j + 1)..Len(input) : input[k] \in WhiteSpace
        /\ r # <<>> => (r[1] \notin WhiteSpace /\ r[Len(r)] \notin WhiteSpace)

\* C11: a start from Idle issues one create; when the store accepts it,
\* exactly one session is added, with startTime = now, no endTime, no
\* durationMinutes and as jobName the trimmed input, or "Unspecified Project"
\* when the input is empty or all white space.
C11_StartCreatesOneSession ==
    [][(Ran("startTracking") /\ db # Null /\ userId # Null /\ OpenIds(store) = {}) =>
          /\ last'.call.kind = "addDoc"
          /\ ~last'.call.ok => store' = store
          /\ last'.call.ok =>
                LET id == last'.call.id
                IN  /\ id \notin DOMAIN store
                    /\ DOMAIN store' = DOMAIN store \cup {id}
                    /\ \A k \in DOMAIN store : store'[k] = store[k]
                    /\ toDate(store'[id].start_time) = now
                    /\ store'[id].end_time = Null
                    /\ store'[id].duration = Null
                    /\ IF \A k \in 1..Len(jobInput) : jobInput[k] \in WhiteSpace
                       THEN store'[id].jobName = DefaultJobName
                       ELSE TrimmedTo(jobInput, store'[id].jobName)]_vars

\* C11 witness: a start from Idle with an input of white space only has
\* created the one open session, named "Unspecified Project".
C11_StartedWithBlankInput ==
    /\ last.op = "startTracking" /\ last.call.ok
    /\ OpenIds(store) = {last.call.id}
    /\ jobInput = <<" ", "\t">>
    /\ store[last.call.id].jobName = DefaultJobName

----------------------------------------------------------------------------
\* Properties of the totals view

\* The positions of the completed sessions in the local list
Completed == {i \in DOMAIN sessions : sessions[i].end_time # Null}

\* The minutes of the sessions of list that have an endTime
RECURSIVE SumMinutes(_)
SumMinutes(list) ==
    IF list = <<>> THEN 0
    ELSE (IF Head(list).end_time # Null THEN Val(Head(list).duration) ELSE 0)
         + SumMinutes(Tail(list))

\* The calendar day of date in the time zone of the host
LocalDay(date) == CivilFromDays(LocalTime(date).day)

\* C12: in every grouping mode the grand total is the sum of durationMinutes
\* over exactly the sessions with an endTime (open sessions add 0), and a list
\* that is empty or holds open sessions only gives no group and a total of 0.
C12_GrandTotalIsSumOfCompleted ==
    /\ totalMinutesAcrossAllPeriods = SumMinutes(sessions)
    /\ Completed = {} => (RenderedGroups = <<>> /\ totalMinutesAcrossAllPeriods = 0)

\* C12 witness: a list with an open session and completed sessions of 45 and
\* 90 minutes in two periods shows a grand total of 135.
C12_TotalSkipsOpenSession ==
    /\ \E i \in DOMAIN sessions : sessions[i].end_time = Null
    /\ Len(RenderedGroups) = 2
    /\ totalMinutesAcrossAllPeriods = 135

\* C13: the groups partition the completed sessions: every completed session
\* is in exactly one group, once, and that group's periodStart is the period
\* start of its startTime; groups hold nothing else and are not empty; no two
\* groups have the same periodStart; and a group's totalMinutes is the sum of
\* the durationMinutes of its sessions.
C13_GroupsPartitionCompleted ==
    LET G == RenderedGroups
    IN  /\ \A i \in Completed :
              LET where == {w \in (DOMAIN G) \X (DOMAIN sessions) :
                              /\ w[2] \in DOMAIN G[w[1]].sessions
                              /\ G[w[1]].sessions[w[2]] = sessions[i]}
              IN  /\ Cardinality(where) = 1
                  /\ \A w \in where :
                       G[w[1]].start =
                         (IF totalPeriod = "monthly" THEN getMonthStart(sessions[i].start_time)
                          ELSE IF totalPeriod = "biweekly" THEN getBiweekStart(sessions[i].start_time)
                          ELSE getWeekStart(sessions[i].start_time))
        /\ \A g \in DOMAIN G :
              /\ G[g].sessions # <<>>
              /\ \A k \in DOMAIN G[g].sessions :
                   \E i \in Completed : sessions[i] = G[g].sessions[k]
              /\ G[g].totalMinutes = SumMinutes(G[g].sessions)
        /\ \A g, h \in DOMAIN G : g # h => G[g].start # G[h].start

\* C13 witness: two sessions of 90 and 45 minutes in one week form one
\* weekly group of 135 minutes.
C13_TwoSessionsOneWeek ==
    /\ totalPeriod = "weekly"
    /\ \E g \in DOMAIN RenderedGroups :
         /\ Len(RenderedGroups[g].sessions) = 2
         /\ {Val(RenderedGroups[g].sessions[k].duration) : k \in 1..2} = {90, 45}
         /\ RenderedGroups[g].totalMinutes = 135

\* C14: the groups are in strictly descending order of periodStart: each
\* group's periodStart is later than that of the group after it.
C14_GroupsStrictlyDescending ==
    \A g \in 1..(Len(RenderedGroups) - 1) :
        Later(RenderedGroups[g].start, RenderedGroups[g + 1].start)

\* C14 witness: three months are shown.
C14_ThreeMonthsShown ==
    /\ totalPeriod = "monthly"
    /\ Len(RenderedGroups) = 3

C16_WeekStartWithinSevenDays ==
    \A i \in DOMAIN sessions :
        LET d == sessions[i].start_time
            w == getWeekStart(d)
        IN  /\ getDay(w) = 0
            /\ LocalTime(w).ms = 0
            /\ getTimeDiff(d, w) >= 0
            /\ getTimeDiff(d, w) < 7 * MsPerDay

\* The minute counts the page formats: the grand total, the group totals and
\* the durations of the rows
ShownMinutes ==
    {totalMinutesAcrossAllPeriods}
    \cup {RenderedGroups[g].totalMinutes : g \in DOMAIN RenderedGroups}
    \cup {Val(sessions[i].duration) : i \in Completed}

\* s is a string of decimal digits
IsDigits(s) == \A k \in DOMAIN s : \E n \in DOMAIN DecimalDigits : DecimalDigits[n] = s[k]

\* text is H:MM for the minute count m
IsHoursAndMinutes(text, m) ==
    \E colon \in DOMAIN text :
        LET hours == SubSeq(text, 1, colon - 1)
            mins == SubSeq(text, colon + 1, Len(text))
        IN  /\ text[colon] = ":"
            /\ hours # <<>> /\ IsDigits(hours)
            /\ Len(hours) > 1 => hours[1] # "0"
            /\ ParseDigits(hours) = m \div 60
            /\ Len(mins) = 2 /\ IsDigits(mins)
            /\ ParseDigits(mins) = m % 60

\* C17: for every whole minute count m >= 0 (up to MaxMinutes, and every count
\* the page shows) formatDuration(m) is the hours m div 60 without padding, a
\* colon, and the minutes m mod 60 padded with zeros to two digits; for null
\* and for NaN it is "0:00".
C17_FormatDurationIsHoursAndMinutes ==
    /\ \A m \in (0..MaxMinutes) \cup ShownMinutes :
         IsHoursAndMinutes(formatDuration(Some(m)), m)
    /\ formatDuration(Null) = <<"0", ":", "0", "0">>
    /\ formatDuration(NaN) = <<"0", ":", "0", "0">>

\* C17 witness: the grand total of 135 minutes is shown as 2:15 and the total
\* of a group of 0 minutes as 0:00.
C17_ShowsTwoFifteen ==
    /\ totalMinutesAcrossAllPeriods = 135
    /\ formatDuration(Some(totalMinutesAcrossAllPeriods)) = <<"2", ":", "1", "5">>
    /\ \E g \in DOMAIN RenderedGroups :
         /\ RenderedGroups[g].totalMinutes = 0
         /\ formatDuration(Some(RenderedGroups[g].totalMinutes)) = <<"0", ":", "0", "0">>

----------------------------------------------------------------------------
\* Properties of the subscription, of sign-in and of the clock

\* C18: when a snapshot is processed, the local session list becomes the
\* delivered list, document by document, and isTracking becomes true exactly
\* when the delivered list holds a session without endTime, whatever the local
\* state was before.
C18_SnapshotSupersedesLocalState ==
    [][(listener # Null /\ listener' = listener /\ feed # <<>> /\ feed' = Tail(feed)) =>
          LET docs == Head(feed)
          IN  /\ Len(sessions') = Len(docs)
              /\ \A i \in DOMAIN docs :
                   /\ sessions'[i].id = docs[i].id
                   /\ sessions'[i].start_time = toDate(docs[i].data.start_time)
                   /\ (sessions'[i].end_time = Null) <=> (docs[i].data.end_time = Null)
                   /\ sessions'[i].end_time # Null =>
                        Val(sessions'[i].end_time) = toDate(Val(docs[i].data.end_time))
                   /\ sessions'[i].duration = docs[i].data.duration
                   /\ sessions'[i].jobName = docs[i].data.jobName
              /\ isTracking' <=> (\E i \in DOMAIN docs : docs[i].data.end_time = Null)]_vars

\* C18 witness: the snapshot of a stop has been processed before the stop's
\* own continuation ran: the list shows the session closed and the client no
\* longer tracks, where it tracked that session before.
C18_StopSnapshotProcessed ==
    /\ awaiting # <<>>
    /\ feed = <<>>
    /\ sessions # <<>>
    /\ \A i \in DOMAIN sessions : sessions[i].end_time # Null
    /\ ~isTracking
    /\ jobInput = sessions[1].jobName

\* C19: while userId is absent no step changes the store, start, stop and
\* delete issue no store call, and a session subscription exists only when
\* userId is set and auth is ready.
C19_InertWithoutUserId ==
    /\ [](listener # Null => (db # Null /\ isAuthReady /\ userId # Null))
    /\ [](userId = Null => (feed = <<>> /\ sessions = <<>>))
    /\ [][userId = Null =>
            /\ store' = store
            /\ calls' = calls
            /\ last'.call.kind = "none"]_vars

\* C19 witness: deleteSession has run on a page that has no userId yet, over
\* a store that holds sessions.
C19_DeleteBeforeSignIn ==
    /\ last.op = "deleteSession"
    /\ userId = Null
    /\ db # Null
    /\ DOMAIN store # {}

\* C20: every durationMinutes in the store is a whole number >= 0.
C20_DurationNeverNegative ==
    \A id \in DOMAIN store :
        store[id].duration # Null =>
            (Val(store[id].duration) \in Int /\ Val(store[id].duration) >= 0)

----------------------------------------------------------------------------
\* Properties of the job-name input

\* C22: when the snapshot callback processes a list without an open session
\* while isTracking is true, the job-name input is the empty string
\* afterwards.
C22_InputClearedWhenTrackingEnds ==
    [][(SnapshotProcessed /\ isTracking /\ FindOpen(sessions') = Null)
          => jobInput' = <<>>]_vars

----------------------------------------------------------------------------
\* Properties of the subscriptions

\* The state cells of the component
LocalState == <<db, userId, isAuthReady, sessions, isTracking, error, jobInput, totalPeriod>>

\* C21: once the component is discarded no listener is registered and no
\* step delivers a snapshot or changes a state cell; at any time at most one
\* snapshot listener is registered, and it is the one on the sessions of the
\* current userId, so that when userId changes the listener on the previous
\* user's sessions is gone in the same step.
C21_SubscriptionsTornDown ==
    /\ [](~mounted => (subscriptions = Unsubscribed /\ listener = Null /\ feed = <<>>))
    /\ [][(~mounted /\ ~mounted') => UNCHANGED LocalState]_vars
    /\ [](Len(subscriptions.onSnapshot) <= 1)
    /\ []((listener # Null) <=> (subscriptions.onSnapshot # <<>>))
    /\ [](listener # Null =>
            (userId # Null /\ subscriptions.onSnapshot = <<Val(userId)>>))
    /\ [][(listener # Null /\ userId' # userId) =>
            \A k \in DOMAIN subscriptions'.onSnapshot :
                subscriptions'.onSnapshot[k] # Val(userId)]_vars

\* C21 witness: the component was discarded after the signed-in user had
\* changed from the first to the second while the first one's sessions were
\* listened to (the list still shows a session of the first user's
\* collection).
C21_DiscardedAfterUserChange ==
    /\ ~mounted
    /\ userId = Some(Uid2)
    /\ storeUser = Uid2
    /\ sessions # <<>>
    /\ \A i \in DOMAIN sessions : sessions[i].id \in DOMAIN otherStore

====
